---- MODULE Spec2Model ----
(***************************************************************************)
(* Order lifecycle and inventory engine of Dink_back                       *)
(* (src/src/controllers/order.controller.ts).                              *)
(*                                                                         *)
(* The database tables are the shared state; every HTTP request is a       *)
(* process with its own local variables.  A handler is an async function:  *)
(* it runs without interruption between two awaits, and every await is one *)
(* database statement.  One action of the model is one database statement  *)
(* together with the handler code that runs up to the next await.          *)
(***************************************************************************)
EXTENDS Integers, Sequences, FiniteSets, TLC

(***************************************************************************)
(* Bounds of the model.                                                    *)
(***************************************************************************)
NProducts == 2      \* products in the catalog
MaxStock  == 3      \* largest initial stock of a product
MaxQty    == 2      \* largest quantity of an input line
MaxLines  == 2      \* longest item list of a createOrder request
MaxOrders == 1      \* orders the model lets createOrder insert
NReq      == 2      \* request slots (requests in flight at once)
NConc     == 3      \* concurrent requests of the last-unit scenario
NRaced    == 1      \* products in the catalog when requests interleave
MaxNow    == 1      \* last millisecond of the clock
NTickOrders == 2    \* orders created while the clock runs
MaxRacedStock == 2  \* largest initial stock when requests interleave
MaxPage == 3        \* largest page number asked of getOrders
NPagedOrders == 45  \* largest table getOrders is asked to page
DayLength == 2      \* clock ticks in a calendar day
SalesDays == 2      \* calendar days the clock runs through under SpecSales
NSalesOrders == 2   \* orders in the table under SpecSales
NSearchOrders == 2  \* orders in the table under SpecSearch

Products == 1..NProducts

(***************************************************************************)
(* JavaScript numbers as Number(x) yields them: an integer, or a value     *)
(* Number.isInteger rejects (NaN, a fraction).                             *)
(***************************************************************************)
Num(n) == [int |-> TRUE, val |-> n]
NotInt == [int |-> FALSE, val |-> 0]
IsInteger(x) == x.int

(***************************************************************************)
(* Strings that need trimming are sequences of characters.                 *)
(***************************************************************************)
RECURSIVE TrimStart(_)
TrimStart(s) == IF s # <<>> /\ Head(s) = " " THEN TrimStart(Tail(s)) ELSE s

RECURSIVE TrimEnd(_)
TrimEnd(s) ==
    IF s # <<>> /\ s[Len(s)] = " " THEN TrimEnd(SubSeq(s, 1, Len(s) - 1)) ELSE s

Trim(s) == TrimEnd(TrimStart(s))

(***************************************************************************)
(* A catalog price is a numeric(10,2) value: units and hundredths.         *)
(* Math.round(Number(price) * 100) is its count of cents.                  *)
(***************************************************************************)
PriceCents(price) == price.units * 100 + price.hundredths

CatalogPrice(p) == [units |-> 10 + p, hundredths |-> 25 * p]

\* The sum of priceCents * quantity over the rows items.
RECURSIVE SumCents(_)
SumCents(items) ==
    IF items = <<>> THEN 0
    ELSE Head(items).priceCents * Head(items).quantity + SumCents(Tail(items))

\* The total quantity of product p over the rows items.
RECURSIVE Demand(_, _)
Demand(items, p) ==
    IF items = <<>> THEN 0
    ELSE (IF Head(items).productId = p THEN Head(items).quantity ELSE 0)
         + Demand(Tail(items), p)

validStatuses == <<"pending", "paid", "completed", "cancelled", "refunded", "failed">>

\* Variant of Includes: every label is found.
IncludesAnything(seq, x) == TRUE

Includes(seq, x) == \E k \in 1..Len(seq) : seq[k] = x

(***************************************************************************)
(* State.                                                                  *)
(*   products    the products table: id -> stock and price                 *)
(*   orders      the orders table: the row of order id is orders[id]       *)
(*   orderItems  the order_items table, grouped by order_id in insertion   *)
(*               order                                                     *)
(*   req         the local variables of the request in each slot           *)
(*   out         the response the last step sent, if it sent one              *)
(*   intended    history: the line items createOrder validated for each    *)
(*               order header it inserted                                  *)
(*   before      history: the tables as they were when the last request    *)
(*               started (kept when requests run one at a time)            *)
(*   now         the clock that Date.now() and new Date() read, in         *)
(*               milliseconds                                              *)
(***************************************************************************)
VARIABLES products, orders, orderItems, req, out, intended, before, now

vars == <<products, orders, orderItems, req, out, intended, before, now>>

NoResp == [kind |-> "none", code |-> 0, message |-> "", line |-> 0,
           product |-> 0, available |-> 0, requested |-> 0,
           order |-> 0, status |-> "", was |-> "", data |-> <<>>]

NoOrder == [status |-> "", totalCents |-> 0, customerPhone |-> <<>>,
            orderNumber |-> 0, createdAt |-> 0, updatedAt |-> 0]

Idle == [kind |-> "none", pc |-> "idle", items |-> <<>>, i |-> 1,
         finalItems |-> <<>>, totalCents |-> 0, newOrder |-> 0,
         customerPhone |-> <<>>, id |-> 0, status |-> "",
         currentOrder |-> NoOrder, newStock |-> 0, query |-> <<>>,
         resp |-> NoResp]

NoSnapshot == [products |-> <<>>, orders |-> <<>>, orderItems |-> <<>>]
Snapshot == [products |-> products, orders |-> orders, orderItems |-> orderItems]

InFlight(r) == req[r].pc # "idle"

\* Requests run one at a time when there is a single slot.
Serial == Cardinality(DOMAIN req) = 1

\* A new request takes the first free slot.
FreeSlot(r) == ~InFlight(r) /\ \A s \in DOMAIN req : s < r => InFlight(s)

(***************************************************************************)
(* res.status(code).json(...): the handler returns.  The response keeps,   *)
(* beside what the handler sends, the loop index it returned at and the    *)
(* order id and target status the request came with.                       *)
(***************************************************************************)
Respond(rec, code, message) ==
    [rec EXCEPT !.pc = "done",
                !.resp = [NoResp EXCEPT !.kind = rec.kind, !.code = code,
                                        !.message = message, !.line = rec.i,
                                        !.order = rec.id, !.status = rec.status]]

\* The request of slot r goes on as rec; a request that has returned frees its
\* slot, and out holds its response until the next statement runs.
Continue(r, rec) ==
    /\ req' = [req EXCEPT ![r] = IF rec.pc = "done" THEN Idle ELSE rec]
    /\ out' = IF rec.pc = "done" THEN rec.resp ELSE NoResp
    /\ before' = IF Serial /\ req[r].pc = "idle" THEN Snapshot ELSE before
    /\ now' = now

(***************************************************************************)
(* Request inputs.  The item list of a createOrder request is drawn line   *)
(* by line, when the validation loop reaches the line: the handler looks   *)
(* at no line before.                                                      *)
(***************************************************************************)
ValidLines == [productId : {Num(p) : p \in DOMAIN products},
               quantity : {Num(q) : q \in 1..MaxQty}]

BadLines == { [productId |-> NotInt, quantity |-> Num(1)],
              [productId |-> Num(0), quantity |-> Num(1)],
              [productId |-> Num(1), quantity |-> NotInt],
              [productId |-> Num(1), quantity |-> Num(0)],
              [productId |-> Num(Len(products) + 1), quantity |-> Num(1)] }

Lines == ValidLines \cup BadLines

\* What may follow the lines read so far: one more line, or the end of the list.
MoreItems(items) ==
    IF Len(items) < MaxLines THEN {<<>>} \cup { <<l>> : l \in Lines } ELSE {<<>>}

GoodPhone == <<" ", "5", " ">>
BadPhones == { <<>>, <<" ", " ">> }

\* A request body: the head of its item list and its phone.  A body with a bad
\* phone is drawn with an empty list and with one line.
CreateInputs ==
    { [more |-> m, customerPhone |-> GoodPhone] : m \in MoreItems(<<>>) }
    \cup { [more |-> m, customerPhone |-> ph] :
              m \in {<<>>, <<[productId |-> Num(1), quantity |-> Num(1)]>>},
              ph \in BadPhones }

StatusInputs == { validStatuses[k] : k \in 1..Len(validStatuses) } \cup {"shipped"}

\* The target statuses drawn: all of them when requests run one at a time, these
\* when they interleave.
RacedStatuses == {"pending", "paid", "cancelled", "shipped"}

TargetStatuses == IF Serial THEN StatusInputs ELSE RacedStatuses

IdInputs == { Num(n) : n \in 1..(MaxOrders + 1) } \cup {NotInt}

(***************************************************************************)
(* createOrder                                                             *)
(***************************************************************************)

\* The checks of one input line that run before its product is read.
LineCheck(item) ==
    IF ~IsInteger(item.productId) \/ item.productId.val <= 0
    THEN "Invalid product id"
    ELSE IF ~IsInteger(item.quantity) \/ item.quantity.val <= 0
    THEN "Invalid quantity"
    ELSE "ok"

\* The validation loop from its head, for line rec.i, up to the next await;
\* more is the rest of the list as far as the loop now reads it.
CreateLoop(rec, more) ==
    LET all == [rec EXCEPT !.items = @ \o more]
    IN  IF all.i > Len(all.items)
        THEN [all EXCEPT !.pc = "insertOrder"]
        ELSE IF LineCheck(all.items[all.i]) # "ok"
        THEN Respond(all, 400, LineCheck(all.items[all.i]))
        ELSE [all EXCEPT !.pc = "selectProduct"]

\* The handler from its entry up to the first await.
CreateEnter(more, customerPhone) ==
    LET rec == [Idle EXCEPT !.kind = "createOrder",
                            !.customerPhone = customerPhone]
    IN  IF Len(more) = 0
        THEN Respond(rec, 400, "No items in order")
        ELSE IF Len(customerPhone) = 0 \/ Len(Trim(customerPhone)) = 0
        THEN Respond(rec, 400, "Customer phone is required")
        ELSE CreateLoop(rec, more)

CreateStart(r) ==
    /\ FreeSlot(r)
    /\ \E body \in CreateInputs :
           Continue(r, CreateEnter(body.more, body.customerPhone))
    /\ UNCHANGED <<products, orders, orderItems, intended>>

\* Variant of CreateSelectProduct: the header and the lines accepted so far are
\* written before the line that is rejected.
CreateSelectProductHeaderFirst(r) ==
    /\ req[r].kind = "createOrder"
    /\ req[r].pc = "selectProduct"
    /\ LET rec == req[r]
           productId == rec.items[rec.i].productId.val
           quantity == rec.items[rec.i].quantity.val
           rejected == \/ productId \notin DOMAIN products
                       \/ products[productId].stock < quantity
       IN  /\ IF productId \notin DOMAIN products
              THEN Continue(r, Respond(rec, 404, "Product not found"))
              ELSE IF products[productId].stock < quantity
              THEN Continue(r, Respond(rec, 400, "Insufficient stock"))
              ELSE LET price == products[productId].price
                       priceCents == PriceCents(price)
                       pushed == [rec EXCEPT
                           !.totalCents = @ + priceCents * quantity,
                           !.finalItems = Append(@,
                               [productId |-> productId, quantity |-> quantity,
                                price |-> price, priceCents |-> priceCents]),
                           !.i = @ + 1]
                   IN  \E more \in MoreItems(rec.items) :
                           Continue(r, CreateLoop(pushed, more))
           /\ IF rejected /\ rec.i > 1
              THEN /\ orders' = Append(orders, [status |-> "pending",
                                      totalCents |-> rec.totalCents,
                                      customerPhone |-> Trim(rec.customerPhone),
                                      orderNumber |-> now,
                                      createdAt |-> now,
                                      updatedAt |-> now])
                   /\ orderItems' = Append(orderItems, rec.finalItems)
                   /\ intended' = Append(intended, rec.finalItems)
              ELSE UNCHANGED <<orders, orderItems, intended>>
    /\ UNCHANGED products

\* Variant of CreateSelectProduct: the stock of the product is not compared
\* with the quantity.
CreateSelectProductAnyStock(r) ==
    /\ req[r].kind = "createOrder"
    /\ req[r].pc = "selectProduct"
    /\ LET rec == req[r]
           productId == rec.items[rec.i].productId.val
           quantity == rec.items[rec.i].quantity.val
       IN  IF productId \notin DOMAIN products
           THEN Continue(r, [Respond(rec, 404, "Product not found") EXCEPT
                                !.resp.product = productId])
           ELSE LET price == products[productId].price
                    priceCents == PriceCents(price)
                    pushed == [rec EXCEPT
                        !.totalCents = @ + priceCents * quantity,
                        !.finalItems = Append(@,
                            [productId |-> productId, quantity |-> quantity,
                             price |-> price, priceCents |-> priceCents]),
                        !.i = @ + 1]
                IN  \E more \in MoreItems(rec.items) :
                        Continue(r, CreateLoop(pushed, more))
    /\ UNCHANGED <<products, orders, orderItems, intended>>

\* await db.select().from(products) for line i, then the rest of the loop body.
CreateSelectProduct(r) ==
    /\ req[r].kind = "createOrder"
    /\ req[r].pc = "selectProduct"
    /\ LET rec == req[r]
           productId == rec.items[rec.i].productId.val
           quantity == rec.items[rec.i].quantity.val
       IN  IF productId \notin DOMAIN products
           THEN Continue(r, [Respond(rec, 404, "Product not found") EXCEPT
                                !.resp.product = productId])
           ELSE IF products[productId].stock < quantity
           THEN Continue(r, [Respond(rec, 400, "Insufficient stock") EXCEPT
                                !.resp.product = productId,
                                !.resp.available = products[productId].stock,
                                !.resp.requested = quantity])
           ELSE LET price == products[productId].price
                    priceCents == PriceCents(price)
                    pushed == [rec EXCEPT
                        !.totalCents = @ + priceCents * quantity,
                        !.finalItems = Append(@,
                            [productId |-> productId, quantity |-> quantity,
                             price |-> price, priceCents |-> priceCents]),
                        !.i = @ + 1]
                IN  \E more \in MoreItems(rec.items) :
                        Continue(r, CreateLoop(pushed, more))
    /\ UNCHANGED <<products, orders, orderItems, intended>>

\* Whether the orders table refuses a row with this order number.  The table's
\* declaration is not among the sources; the specification describes the
\* number as derived from the creation time with no uniqueness enforced.
OrderNumberRefused(orderNumber) == FALSE

\* await db.insert(orders): the header, with status pending and the order
\* number ORD-<Date.now()>; the storage stamps the row with the time.
CreateInsertOrder(r) ==
    /\ req[r].kind = "createOrder"
    /\ req[r].pc = "insertOrder"
    /\ ~OrderNumberRefused(now)
    /\ orders' = Append(orders, [status |-> "pending",
                                 totalCents |-> req[r].totalCents,
                                 customerPhone |-> Trim(req[r].customerPhone),
                                 orderNumber |-> now,
                                 createdAt |-> now,
                                 updatedAt |-> now])
    /\ orderItems' = Append(orderItems, <<>>)
    /\ intended' = Append(intended, req[r].finalItems)
    /\ Continue(r, [req[r] EXCEPT !.newOrder = Len(orders) + 1,
                                  !.pc = "insertItem", !.i = 1])
    /\ UNCHANGED products

\* Variant of CreateInsertItem: the stock of the line's product is taken when
\* its row is inserted.
CreateInsertItemTakingStock(r) ==
    /\ req[r].kind = "createOrder"
    /\ req[r].pc = "insertItem"
    /\ LET rec == req[r]
           fi == rec.finalItems[rec.i]
       IN  /\ orderItems' = [orderItems EXCEPT ![rec.newOrder] = Append(@,
                  [orderId |-> rec.newOrder, productId |-> fi.productId,
                   quantity |-> fi.quantity, price |-> fi.price,
                   priceCents |-> fi.priceCents])]
           /\ products' = [products EXCEPT ![fi.productId].stock = @ - fi.quantity]
           /\ Continue(r,
                  IF rec.i = Len(rec.finalItems)
                  THEN [Respond(rec, 201, "created") EXCEPT
                           !.resp.order = rec.newOrder, !.resp.status = "pending"]
                  ELSE [rec EXCEPT !.i = @ + 1])
    /\ UNCHANGED <<orders, intended>>

\* await db.insert(orderItems) for finalItems[i]; after the last one, 201.
CreateInsertItem(r) ==
    /\ req[r].kind = "createOrder"
    /\ req[r].pc = "insertItem"
    /\ LET rec == req[r]
           fi == rec.finalItems[rec.i]
       IN  /\ orderItems' = [orderItems EXCEPT ![rec.newOrder] = Append(@,
                  [orderId |-> rec.newOrder, productId |-> fi.productId,
                   quantity |-> fi.quantity, price |-> fi.price,
                   priceCents |-> fi.priceCents])]
           /\ Continue(r,
                  IF rec.i = Len(rec.finalItems)
                  THEN [Respond(rec, 201, "created") EXCEPT
                           !.resp.order = rec.newOrder, !.resp.status = "pending"]
                  ELSE [rec EXCEPT !.i = @ + 1])
    /\ UNCHANGED <<products, orders, intended>>

\* The createOrder of src/unnamed/part_002 goes on, after the last order item,
\* with a loop over the input lines that takes their units from the stock.
\* await db.insert(orderItems) for finalItems[i].
EagerInsertItem(r) ==
    /\ req[r].kind = "createOrder"
    /\ req[r].pc = "insertItem"
    /\ LET rec == req[r]
           fi == rec.finalItems[rec.i]
       IN  /\ orderItems' = [orderItems EXCEPT ![rec.newOrder] = Append(@,
                  [orderId |-> rec.newOrder, productId |-> fi.productId,
                   quantity |-> fi.quantity, price |-> fi.price,
                   priceCents |-> fi.priceCents])]
           /\ Continue(r,
                  IF rec.i = Len(rec.finalItems)
                  THEN [rec EXCEPT !.pc = "selectStockOfLine", !.i = 1]
                  ELSE [rec EXCEPT !.i = @ + 1])
    /\ UNCHANGED <<products, orders, intended>>

\* The loop of part_002 reaches line i, or its end: 201.
EagerLoop(rec) ==
    IF rec.i > Len(rec.finalItems)
    THEN [Respond(rec, 201, "created") EXCEPT
             !.resp.order = rec.newOrder, !.resp.status = "pending"]
    ELSE [rec EXCEPT !.pc = "selectStockOfLine"]

\* await db.select().from(products) for line i: product.stock - quantity.
EagerSelectStock(r) ==
    /\ req[r].kind = "createOrder"
    /\ req[r].pc = "selectStockOfLine"
    /\ LET rec == req[r]
           item == rec.finalItems[rec.i]
       IN  IF item.productId \notin DOMAIN products
           THEN Continue(r, EagerLoop([rec EXCEPT !.i = @ + 1]))
           ELSE Continue(r, [rec EXCEPT
                    !.newStock = products[item.productId].stock - item.quantity,
                    !.pc = "updateStockOfLine"])
    /\ UNCHANGED <<products, orders, orderItems, intended>>

\* await db.update(products).set({ stock: product.stock - quantity })
EagerUpdateStock(r) ==
    /\ req[r].kind = "createOrder"
    /\ req[r].pc = "updateStockOfLine"
    /\ LET rec == req[r]
           item == rec.finalItems[rec.i]
       IN  /\ products' = [products EXCEPT ![item.productId].stock = rec.newStock]
           /\ Continue(r, EagerLoop([rec EXCEPT !.i = @ + 1]))
    /\ UNCHANGED <<orders, orderItems, intended>>

(***************************************************************************)
(* updateOrderStatus                                                       *)
(***************************************************************************)

\* Variant of NeedsDecrement: a request with any target decrements, unless
\* the order is paid.
NeedsDecrementAnyTarget(status, currentOrder) == currentOrder.status # "paid"

\* Variant of NeedsDecrement: every request with target paid decrements.
NeedsDecrementAnyPaid(status, currentOrder) == status = "paid"

\* status === "paid" && currentOrder.status !== "paid"
NeedsDecrement(status, currentOrder) ==
    status = "paid" /\ currentOrder.status # "paid"

\* Variant of NewStock: one unit a line, whatever its quantity.
NewStockLessOne(product, item) == product.stock - 1

\* product.stock - item.quantity
NewStock(product, item) == product.stock - item.quantity

\* Variant of Insufficient: no stock check.
InsufficientUnchecked(newStock) == FALSE

\* Variant of Insufficient: the last unit cannot be taken.
InsufficientAtZero(newStock) == newStock <= 0

\* if (newStock < 0) return 400
Insufficient(newStock) == newStock < 0

\* The decrement loop from its head, for item rec.i, up to the next await.
UpdateLoop(rec) ==
    IF rec.i > Len(rec.items)
    THEN [rec EXCEPT !.pc = "updateOrder"]
    ELSE [rec EXCEPT !.pc = "selectStock"]

\* The handler from its entry up to the first await.
UpdateEnter(id, status) ==
    LET rec == [Idle EXCEPT !.kind = "updateOrderStatus", !.status = status,
                            !.id = IF IsInteger(id) THEN id.val ELSE 0]
    IN  IF ~IsInteger(id)
        THEN Respond(rec, 400, "Invalid order id")
        ELSE IF ~Includes(validStatuses, status)
        THEN Respond(rec, 400, "Invalid status")
        ELSE [rec EXCEPT !.pc = "selectOrder"]

UpdateStart(r) ==
    /\ FreeSlot(r)
    /\ \E id \in IdInputs, status \in TargetStatuses :
           Continue(r, UpdateEnter(id, status))
    /\ UNCHANGED <<products, orders, orderItems, intended>>

\* Variant of UpdateSelectOrder: no check that the order exists; the update of
\* no row is answered 200.
UpdateSelectOrderUnchecked(r) ==
    /\ req[r].kind = "updateOrderStatus"
    /\ req[r].pc = "selectOrder"
    /\ LET rec == req[r]
       IN  IF rec.id \notin DOMAIN orders
           THEN Continue(r, Respond(rec, 200, "updated"))
           ELSE LET found == [rec EXCEPT !.currentOrder = orders[rec.id]]
                IN  IF NeedsDecrement(found.status, found.currentOrder)
                    THEN Continue(r, [found EXCEPT !.pc = "selectItems"])
                    ELSE Continue(r, [found EXCEPT !.pc = "updateOrder"])
    /\ UNCHANGED <<products, orders, orderItems, intended>>

\* await db.select().from(orders): the current order, or 404.
UpdateSelectOrder(r) ==
    /\ req[r].kind = "updateOrderStatus"
    /\ req[r].pc = "selectOrder"
    /\ LET rec == req[r]
       IN  IF rec.id \notin DOMAIN orders
           THEN Continue(r, Respond(rec, 404, "Order not found"))
           ELSE LET found == [rec EXCEPT !.currentOrder = orders[rec.id]]
                IN  IF NeedsDecrement(found.status, found.currentOrder)
                    THEN Continue(r, [found EXCEPT !.pc = "selectItems"])
                    ELSE Continue(r, [found EXCEPT !.pc = "updateOrder"])
    /\ UNCHANGED <<products, orders, orderItems, intended>>

\* await db.select().from(orderItems): the order's line items.
UpdateSelectItems(r) ==
    /\ req[r].kind = "updateOrderStatus"
    /\ req[r].pc = "selectItems"
    /\ Continue(r, UpdateLoop([req[r] EXCEPT !.items = orderItems[req[r].id],
                                             !.i = 1]))
    /\ UNCHANGED <<products, orders, orderItems, intended>>

\* await db.select().from(products) for item i, then the stock check.
UpdateSelectStock(r) ==
    /\ req[r].kind = "updateOrderStatus"
    /\ req[r].pc = "selectStock"
    /\ LET rec == req[r]
           item == rec.items[rec.i]
       IN  IF item.productId \notin DOMAIN products
           THEN Continue(r, UpdateLoop([rec EXCEPT !.i = @ + 1]))
           ELSE LET product == products[item.productId]
                    newStock == NewStock(product, item)
                IN  IF Insufficient(newStock)
                    THEN Continue(r,
                             [Respond(rec, 400, "Insufficient stock") EXCEPT
                                 !.resp.product = item.productId,
                                 !.resp.available = product.stock,
                                 !.resp.requested = item.quantity,
                                 !.resp.order = rec.id,
                                 !.resp.was = rec.currentOrder.status])
                    ELSE Continue(r, [rec EXCEPT !.newStock = newStock,
                                                 !.pc = "updateStock"])
    /\ UNCHANGED <<products, orders, orderItems, intended>>

\* await db.update(products).set({ stock: newStock }), then the next item.
UpdateStock(r) ==
    /\ req[r].kind = "updateOrderStatus"
    /\ req[r].pc = "updateStock"
    /\ LET rec == req[r]
           item == rec.items[rec.i]
       IN  /\ products' = [products EXCEPT ![item.productId].stock = rec.newStock]
           /\ Continue(r, UpdateLoop([rec EXCEPT !.i = @ + 1]))
    /\ UNCHANGED <<orders, orderItems, intended>>

\* Variant of UpdateOrder: the update has no where clause and writes every row.
UpdateOrderEveryRow(r) ==
    /\ req[r].kind = "updateOrderStatus"
    /\ req[r].pc = "updateOrder"
    /\ orders' = [o \in DOMAIN orders |->
                     [orders[o] EXCEPT !.status = req[r].status, !.updatedAt = now]]
    /\ Continue(r, [Respond(req[r], 200, "updated") EXCEPT
                       !.resp.order = req[r].id,
                       !.resp.status = req[r].status,
                       !.resp.was = req[r].currentOrder.status])
    /\ UNCHANGED <<products, orderItems, intended>>

\* await db.update(orders).set({ status }), then res.json(updatedOrder).
UpdateOrder(r) ==
    /\ req[r].kind = "updateOrderStatus"
    /\ req[r].pc = "updateOrder"
    /\ orders' = [orders EXCEPT ![req[r].id].status = req[r].status,
                                ![req[r].id].updatedAt = now]
    /\ Continue(r, [Respond(req[r], 200, "updated") EXCEPT
                       !.resp.order = req[r].id,
                       !.resp.status = req[r].status,
                       !.resp.was = req[r].currentOrder.status])
    /\ UNCHANGED <<products, orderItems, intended>>

(***************************************************************************)
(* getOrder                                                                *)
(***************************************************************************)

\* orderRow.totalCents / 100, and in general cents / 100: an amount.
Amount(cents) == [units |-> cents \div 100, hundredths |-> cents % 100]

\* The handler from its entry up to the first await.
GetEnter(id) ==
    LET rec == [Idle EXCEPT !.kind = "getOrder",
                            !.id = IF IsInteger(id) THEN id.val ELSE 0]
    IN  IF ~IsInteger(id)
        THEN Respond(rec, 400, "Invalid order id")
        ELSE [rec EXCEPT !.pc = "selectOrderRow"]

GetStart(r) ==
    /\ FreeSlot(r)
    /\ \E id \in IdInputs : Continue(r, GetEnter(id))
    /\ UNCHANGED <<products, orders, orderItems, intended>>

\* await db.select().from(orders).limit(1): the order row, or 404.
GetSelectOrder(r) ==
    /\ req[r].kind = "getOrder"
    /\ req[r].pc = "selectOrderRow"
    /\ LET rec == req[r]
       IN  IF rec.id \notin DOMAIN orders
           THEN Continue(r, Respond(rec, 404, "Order not found"))
           ELSE Continue(r, [rec EXCEPT !.currentOrder = orders[rec.id],
                                        !.pc = "selectItemRows"])
    /\ UNCHANGED <<products, orders, orderItems, intended>>

\* Variant of ItemOut: the unit price returned is the product's present price.
ItemOutCatalogPrice(row) ==
    [productId |-> row.productId,
     quantity |-> row.quantity,
     price |-> products[row.productId].price,
     priceCents |-> PriceCents(products[row.productId].price),
     productPrice |-> products[row.productId].price]

\* One row of the answer: the line item with the price stored on it, and the
\* product's present catalog price beside it.
ItemOut(row) ==
    [productId |-> row.productId,
     quantity |-> row.quantity,
     price |-> row.price,
     priceCents |-> PriceCents(row.price),
     productPrice |-> IF row.productId \in DOMAIN products
                      THEN products[row.productId].price
                      ELSE row.price]

\* await db.select(...).from(orderItems).leftJoin(products), then the answer.
GetSelectItems(r) ==
    /\ req[r].kind = "getOrder"
    /\ req[r].pc = "selectItemRows"
    /\ LET rec == req[r]
           itemRows == orderItems[rec.id]
           items == [k \in 1..Len(itemRows) |-> ItemOut(itemRows[k])]
           total == Amount(rec.currentOrder.totalCents)
       IN  Continue(r, [Respond(rec, 200, "order") EXCEPT
                           !.resp.data = [order |-> rec.currentOrder,
                                          total |-> total,
                                          items |-> items]])
    /\ UNCHANGED <<products, orders, orderItems, intended>>

(***************************************************************************)
(* getOrders.  Number(req.query.page) is a number or NaN (NotInt here: a   *)
(* missing or non-numeric parameter; fractions are not drawn).             *)
(***************************************************************************)
Max2(a, b) == IF a >= b THEN a ELSE b
Min2(a, b) == IF a <= b THEN a ELSE b

\* Number(x) || d: NaN and 0 are falsy.
OrDefault(x, d) == IF ~IsInteger(x) \/ x.val = 0 THEN d ELSE x.val

\* const page = Math.max(1, Number(req.query.page) || 1)
Page(x) == Max2(1, OrDefault(x, 1))

\* Variant of PerPage: the page size has no upper limit.
PerPageUncapped(x) == Max2(1, OrDefault(x, 20))

\* const perPage = Math.min(100, Math.max(1, Number(req.query.perPage) || 20))
PerPage(x) == Min2(100, Max2(1, OrDefault(x, 20)))

\* Math.ceil(total / perPage) for total >= 0 and perPage >= 1
Ceil(total, perPage) == (total + perPage - 1) \div perPage

\* totalPages: Math.max(1, Math.ceil(total / perPage))
TotalPages(total, perPage) == Max2(1, Ceil(total, perPage))

\* where eq(orders.status, statusFilter), or no where clause.
Filtered(rows, statusFilter) ==
    SelectSeq(rows, LAMBDA row : statusFilter = "" \/ row.status = statusFilter)

\* like(column, `%${term}%`) on a text column: term occurs in text, letter by
\* letter, in the same case.  Terms hold no % or _ here.
Like(text, term) ==
    \E i \in 0..(Len(text) - Len(term)) : SubSeq(text, i + 1, i + Len(term)) = term

\* or(like(orderNumber, pattern), like(customerName, pattern),
\*    like(customerEmail, pattern))
buildSearchPredicate(term, row) ==
    \/ Like(row.orderNumber, term)
    \/ Like(row.customerName, term)
    \/ Like(row.customerEmail, term)

\* The where clause of getOrders: the status clause and the search clause,
\* each only when its parameter is not empty.
Where(rows, statusFilter, search) ==
    LET kept == Filtered(rows, statusFilter)
    IN  IF search = <<>> THEN kept
        ELSE SelectSeq(kept, LAMBDA row : buildSearchPredicate(search, row))

Reverse(rows) == [k \in 1..Len(rows) |-> rows[Len(rows) + 1 - k]]

\* orderBy(asc(createdAt)) or orderBy(desc(createdAt)): the rows of orders
\* are kept in the order of their creation.
OrderBy(rows, sortOrder) == IF sortOrder = "asc" THEN rows ELSE Reverse(rows)

\* .limit(perPage).offset(offset)
LimitOffset(rows, limit, offset) ==
    SubSeq(rows, offset + 1, Min2(Len(rows), offset + limit))

PageInputs == {NotInt} \cup { Num(n) : n \in -1..MaxPage }
PerPageInputs == {NotInt, Num(-1), Num(0), Num(1), Num(2), Num(20), Num(100), Num(101)}
StatusFilters == {"", "paid", "shipped"}
SortOrders == {"asc", "desc"}

\* The handler up to its first await: the query parameters are read.
GetOrdersEnter(page, perPage, statusFilter, search, sortOrder) ==
    [Idle EXCEPT !.kind = "getOrders",
                 !.pc = "countRows",
                 !.query = [asked |-> [page |-> page, perPage |-> perPage],
                            status |-> statusFilter,
                            search |-> Trim(search),
                            page |-> Page(page),
                            perPage |-> PerPage(perPage),
                            offset |-> (Page(page) - 1) * PerPage(perPage),
                            sortOrder |-> IF sortOrder = "asc" THEN "asc" ELSE "desc",
                            total |-> 0]]

GetOrdersStart(r) ==
    /\ FreeSlot(r)
    /\ \E page \in PageInputs, perPage \in PerPageInputs,
          statusFilter \in StatusFilters, sortOrder \in SortOrders :
           Continue(r, GetOrdersEnter(page, perPage, statusFilter, <<>>, sortOrder))
    /\ UNCHANGED <<products, orders, orderItems, intended>>

\* getOrders with a search term q, and the page parameters left out.
SearchInputs ==
    { <<c>> : c \in {"a", "A"} } \cup { <<c, d>> : c, d \in {"a", "A"} }
    \cup { <<" ", "a", " ">> }

SearchStart(r) ==
    /\ FreeSlot(r)
    /\ \E statusFilter \in {"", "paid"}, search \in SearchInputs :
           Continue(r, GetOrdersEnter(NotInt, NotInt, statusFilter, search, "asc"))
    /\ UNCHANGED <<products, orders, orderItems, intended>>

\* await db.select({ count }).from(orders).where(whereClause)
GetOrdersCount(r) ==
    /\ req[r].kind = "getOrders"
    /\ req[r].pc = "countRows"
    /\ Continue(r, [req[r] EXCEPT
                       !.pc = "selectRows",
                       !.query.total = Len(Where(orders, req[r].query.status,
                                                req[r].query.search))])
    /\ UNCHANGED <<products, orders, orderItems, intended>>

\* await statement.orderBy(...).limit(perPage).offset(offset), then res.json.
GetOrdersSelect(r) ==
    /\ req[r].kind = "getOrders"
    /\ req[r].pc = "selectRows"
    /\ LET q == req[r].query
           rows == LimitOffset(OrderBy(Where(orders, q.status, q.search),
                                       q.sortOrder),
                               q.perPage, q.offset)
       IN  Continue(r, [Respond(req[r], 200, "orders") EXCEPT
                           !.resp.data =
                               [rows |-> rows,
                                asked |-> q.asked,
                                meta |-> [page |-> q.page,
                                          perPage |-> q.perPage,
                                          total |-> q.total,
                                          totalPages |-> TotalPages(q.total, q.perPage),
                                          sortOrder |-> q.sortOrder,
                                          status |-> q.status,
                                          q |-> q.search]]])
    /\ UNCHANGED <<products, orders, orderItems, intended>>

(***************************************************************************)
(* getSalesSummary.  Times are clock ticks, DayLength of them to the day.  *)
(***************************************************************************)
DEFAULT_RANGE_DAYS == 30
MAX_RANGE_DAYS == 365
revenueStatuses == {"paid", "completed"}

\* Number(raw) of a query parameter: NaN (missing or not a number), or a
\* number given in tenths, so that 4 is 0.4 and 15 is 1.5.
NaN == [finite |-> FALSE, tenths |-> 0]
Tenths(t) == [finite |-> TRUE, tenths |-> t]

\* Math.round: the nearest whole number, halves upwards.
Round(x) == (x.tenths + 5) \div 10

\* !Number.isFinite(parsed) || parsed <= 0 gives the default; otherwise
\* Math.min(Math.round(parsed), MAX_RANGE_DAYS).
parseRangeDays(raw) ==
    IF ~raw.finite \/ raw.tenths <= 0 THEN DEFAULT_RANGE_DAYS
    ELSE Min2(Round(raw), MAX_RANGE_DAYS)

\* end is the last tick of the day of at, start the first tick of the day
\* rangeDays - 1 days earlier.
buildRange(raw, at) ==
    LET rangeDays == parseRangeDays(raw)
        today == at \div DayLength
    IN  [start |-> (today - (rangeDays - 1)) * DayLength,
         end |-> today * DayLength + (DayLength - 1),
         rangeDays |-> rangeDays]

\* Variant of buildDateWhere: the window has no start.
buildDateWhereNoStart(range, row) == row.createdAt <= range.end

\* and(gte(orders.createdAt, range.start), lte(orders.createdAt, range.end))
buildDateWhere(range, row) ==
    row.createdAt >= range.start /\ row.createdAt <= range.end

\* sum(total_cents) filter (where <keep>), coalesced to 0
RECURSIVE SumTotalCents(_, _)
SumTotalCents(rows, keep) ==
    IF rows = <<>> THEN 0
    ELSE (IF Head(rows).status \in keep THEN Head(rows).totalCents ELSE 0)
         + SumTotalCents(Tail(rows), keep)

\* Variant of RevenueCents: the sum has no status filter.
RevenueCentsEveryStatus(rows) == SumTotalCents(rows, { rows[k].status : k \in DOMAIN rows })

\* coalesce(sum(total_cents) filter (where status in ('paid','completed')), 0)
RevenueCents(rows) == SumTotalCents(rows, revenueStatuses)

\* count(*) filter (where status = label)
CountStatus(rows, label) == Len(SelectSeq(rows, LAMBDA row : row.status = label))

\* coalesce(avg(total_cents) filter (where status in ('paid','completed')), 0)
\* as the fraction num / den.
AvgOrderValueCents(rows) ==
    LET counted == SelectSeq(rows, LAMBDA row : row.status \in revenueStatuses)
    IN  IF counted = <<>> THEN [num |-> 0, den |-> 1]
        ELSE [num |-> RevenueCents(rows), den |-> Len(counted)]

\* Number(x) / 100, and Number.isFinite(x) ? x : 0
Hundredth(x) == IF x.den = 0 THEN [num |-> 0, den |-> 1]
                ELSE [num |-> x.num, den |-> x.den * 100]

\* query.rangeDays: missing, -1, 0, 0.4, 0.5, 1, 1.4, 1.5, 2, 7, 365.4, 366
RangeInputs ==
    {NaN} \cup { Tenths(t) : t \in {-10, 0, 4, 5, 10, 14, 15, 20, 70,
                                    MAX_RANGE_DAYS * 10 + 4, (MAX_RANGE_DAYS + 1) * 10} }

\* The handler up to its await: buildRange reads the clock.
SalesEnter(raw) ==
    [Idle EXCEPT !.kind = "getSalesSummary",
                 !.pc = "selectSummary",
                 !.query = buildRange(raw, now)]

SalesStart(r) ==
    /\ FreeSlot(r)
    /\ \E raw \in RangeInputs : Continue(r, SalesEnter(raw))
    /\ UNCHANGED <<products, orders, orderItems, intended>>

\* await db.select({ revenueCents, orderCount, ... }).where(dateWhere), then
\* res.json.
getSalesSummary(r) ==
    /\ req[r].kind = "getSalesSummary"
    /\ req[r].pc = "selectSummary"
    /\ LET range == req[r].query
           rows == SelectSeq(orders, LAMBDA row : buildDateWhere(range, row))
       IN  Continue(r, [Respond(req[r], 200, "summary") EXCEPT
                           !.resp.data =
                               [rangeDays |-> range.rangeDays,
                                from |-> range.start,
                                to |-> range.end,
                                revenue |-> Amount(RevenueCents(rows)),
                                orders |-> Len(rows),
                                averageOrderValue |-> Hundredth(AvgOrderValueCents(rows)),
                                pendingValue |-> Amount(SumTotalCents(rows, {"pending"})),
                                pendingCount |-> CountStatus(rows, "pending"),
                                paidCount |-> CountStatus(rows, "paid"),
                                completedCount |-> CountStatus(rows, "completed"),
                                cancelledCount |-> CountStatus(rows, "cancelled")]])
    /\ UNCHANGED <<products, orders, orderItems, intended>>

(***************************************************************************)
(* The foreign keys of order_items (src/unnamed/part_001), and the deletes *)
(* they govern.  The newest row of a table is the one deleted.             *)
(***************************************************************************)
\* Some order item references product p.
ProductReferenced(p) ==
    \E o \in DOMAIN orderItems :
        \E k \in DOMAIN orderItems[o] : orderItems[o][k].productId = p

\* Variant of DeleteProduct: the delete is not refused for a referenced product.
DeleteProductUnchecked ==
    /\ Len(products) > 0
    /\ products' = SubSeq(products, 1, Len(products) - 1)
    /\ UNCHANGED <<orders, orderItems, req, out, intended, before, now>>

\* delete from products: refused while an order item references the product
\* (order_items_product_id_products_id_fk, ON DELETE no action).
DeleteProduct ==
    /\ Len(products) > 0
    /\ ~ProductReferenced(Len(products))
    /\ products' = SubSeq(products, 1, Len(products) - 1)
    /\ UNCHANGED <<orders, orderItems, req, out, intended, before, now>>

\* delete from orders: the order's items go with it
\* (order_items_order_id_orders_id_fk, ON DELETE cascade).
DeleteOrder ==
    /\ Len(orders) > 0
    /\ orders' = SubSeq(orders, 1, Len(orders) - 1)
    /\ orderItems' = SubSeq(orderItems, 1, Len(orders) - 1)
    /\ intended' = SubSeq(intended, 1, Len(orders) - 1)
    /\ UNCHANGED <<products, req, out, before, now>>

\* The order and the product of the row that request r is about to insert
\* into order_items exist.
ForeignKeysAllow(r) ==
    /\ req[r].newOrder \in DOMAIN orders
    /\ req[r].finalItems[req[r].i].productId \in DOMAIN products

\* await db.insert(orderItems) is refused by a foreign key: the catch block
\* answers 500.
InsertItemRefused(r) ==
    /\ req[r].kind = "createOrder"
    /\ req[r].pc = "insertItem"
    /\ ~ForeignKeysAllow(r)
    /\ Continue(r, Respond(req[r], 500, "Storage failure"))
    /\ UNCHANGED <<products, orders, orderItems, intended>>

\* An awaited statement is rejected by the storage: the catch block answers 500.
StorageFailure(r) ==
    /\ InFlight(r)
    /\ req[r].kind \in {"createOrder", "updateOrderStatus"}
    /\ Continue(r, Respond(req[r], 500, "Storage failure"))
    /\ UNCHANGED <<products, orders, orderItems, intended>>

(***************************************************************************)
(* Specifications.                                                         *)
(***************************************************************************)
Catalog(stock) ==
    [p \in DOMAIN stock |-> [stock |-> stock[p], price |-> CatalogPrice(p)]]

Init ==
    /\ \E stock \in [1..NRaced -> 0..MaxRacedStock] : products = Catalog(stock)
    /\ orders = <<>>
    /\ orderItems = <<>>
    /\ intended = <<>>
    /\ req = [r \in 1..NReq |-> Idle]
    /\ out = NoResp
    /\ before = NoSnapshot
    /\ now = 0

\* Any number of requests in flight, their statements interleaved in any order.
Next ==
    \/ \E r \in DOMAIN req : CreateStart(r)
    \/ \E r \in DOMAIN req : CreateSelectProduct(r)
    \/ \E r \in DOMAIN req : Len(orders) < MaxOrders /\ CreateInsertOrder(r)
    \/ \E r \in DOMAIN req : CreateInsertItem(r)
    \/ \E r \in DOMAIN req : UpdateStart(r)
    \/ \E r \in DOMAIN req : UpdateSelectOrder(r)
    \/ \E r \in DOMAIN req : UpdateSelectItems(r)
    \/ \E r \in DOMAIN req : UpdateSelectStock(r)
    \/ \E r \in DOMAIN req : UpdateStock(r)
    \/ \E r \in DOMAIN req : UpdateOrder(r)
    \/ \E r \in DOMAIN req : StorageFailure(r)

Spec == Init /\ [][Next]_vars

\* One request at a time: a single slot.
InitSeq ==
    /\ \E stock \in [Products -> 0..MaxStock] : products = Catalog(stock)
    /\ orders = <<>>
    /\ orderItems = <<>>
    /\ intended = <<>>
    /\ req = [r \in 1..1 |-> Idle]
    /\ out = NoResp
    /\ before = NoSnapshot
    /\ now = 0

SpecSeq == InitSeq /\ [][Next]_vars

\* One request at a time, every product starting with MaxStock units.
InitStocked ==
    /\ products = Catalog([p \in Products |-> MaxStock])
    /\ orders = <<>>
    /\ orderItems = <<>>
    /\ intended = <<>>
    /\ req = [r \in 1..1 |-> Idle]
    /\ out = NoResp
    /\ before = NoSnapshot
    /\ now = 0

SpecStocked == InitStocked /\ [][Next]_vars

\* Requests interleaved, the product starting with MaxRacedStock units.
InitRaced ==
    /\ products = Catalog([p \in 1..NRaced |-> MaxRacedStock])
    /\ orders = <<>>
    /\ orderItems = <<>>
    /\ intended = <<>>
    /\ req = [r \in 1..NReq |-> Idle]
    /\ out = NoResp
    /\ before = NoSnapshot
    /\ now = 0

SpecRaced == InitRaced /\ [][Next]_vars

\* createOrder requests of part_002, interleaved.
InitEager ==
    /\ \E stock \in [1..NRaced -> 0..MaxRacedStock] : products = Catalog(stock)
    /\ orders = <<>>
    /\ orderItems = <<>>
    /\ intended = <<>>
    /\ req = [r \in 1..NReq |-> Idle]
    /\ out = NoResp
    /\ before = NoSnapshot
    /\ now = 0

NextEager ==
    \/ \E r \in DOMAIN req : CreateStart(r)
    \/ \E r \in DOMAIN req : CreateSelectProduct(r)
    \/ \E r \in DOMAIN req : Len(orders) < NTickOrders /\ CreateInsertOrder(r)
    \/ \E r \in DOMAIN req : EagerInsertItem(r)
    \/ \E r \in DOMAIN req : EagerSelectStock(r)
    \/ \E r \in DOMAIN req : EagerUpdateStock(r)

SpecEager == InitEager /\ [][NextEager]_vars

\* createOrder requests, one at a time, while products and orders are deleted.
InitKeys ==
    /\ products = Catalog([p \in Products |-> MaxStock])
    /\ orders = <<>>
    /\ orderItems = <<>>
    /\ intended = <<>>
    /\ req = [r \in 1..1 |-> Idle]
    /\ out = NoResp
    /\ before = NoSnapshot
    /\ now = 0

NextKeys ==
    \/ \E r \in DOMAIN req : CreateStart(r)
    \/ \E r \in DOMAIN req : CreateSelectProduct(r)
    \/ \E r \in DOMAIN req : Len(orders) < NTickOrders /\ CreateInsertOrder(r)
    \/ \E r \in DOMAIN req : ForeignKeysAllow(r) /\ CreateInsertItem(r)
    \/ \E r \in DOMAIN req : InsertItemRefused(r)
    \/ DeleteProduct
    \/ DeleteOrder

SpecKeys == InitKeys /\ [][NextKeys]_vars

\* The last unit: NConc pending orders, each one line of quantity 1 for product
\* 1 whose stock is 1, and one updateOrderStatus(paid) request per order, each
\* about to read its order.
LastUnitItem ==
    [productId |-> 1, quantity |-> 1, price |-> CatalogPrice(1),
     priceCents |-> PriceCents(CatalogPrice(1))]

InitLastUnit ==
    /\ products = Catalog([p \in 1..1 |-> 1])
    /\ orders = [o \in 1..NConc |->
                    [status |-> "pending",
                     totalCents |-> LastUnitItem.priceCents * 1,
                     customerPhone |-> Trim(GoodPhone),
                     orderNumber |-> o, createdAt |-> o, updatedAt |-> o]]
    /\ orderItems = [o \in 1..NConc |->
                        << [orderId |-> o, productId |-> 1, quantity |-> 1,
                            price |-> LastUnitItem.price,
                            priceCents |-> LastUnitItem.priceCents] >>]
    /\ intended = [o \in 1..NConc |-> <<LastUnitItem>>]
    /\ req = [r \in 1..NConc |-> UpdateEnter(Num(r), "paid")]
    /\ out = NoResp
    /\ before = NoSnapshot
    /\ now = NConc

NextLastUnit ==
    \/ \E r \in DOMAIN req : UpdateSelectOrder(r)
    \/ \E r \in DOMAIN req : UpdateSelectItems(r)
    \/ \E r \in DOMAIN req : UpdateSelectStock(r)
    \/ \E r \in DOMAIN req : UpdateStock(r)
    \/ \E r \in DOMAIN req : UpdateOrder(r)

SpecLastUnit == InitLastUnit /\ [][NextLastUnit]_vars

\* The clock advances by a millisecond.
Tick ==
    /\ now < MaxNow
    /\ now' = now + 1
    /\ UNCHANGED <<products, orders, orderItems, req, out, intended, before>>

\* createOrder requests, interleaved, while the clock runs.
InitTick ==
    /\ products = Catalog([p \in 1..NRaced |-> MaxRacedStock])
    /\ orders = <<>>
    /\ orderItems = <<>>
    /\ intended = <<>>
    /\ req = [r \in 1..NReq |-> Idle]
    /\ out = NoResp
    /\ before = NoSnapshot
    /\ now = 0

NextTick ==
    \/ \E r \in DOMAIN req : CreateStart(r)
    \/ \E r \in DOMAIN req : CreateSelectProduct(r)
    \/ \E r \in DOMAIN req : Len(orders) < NTickOrders /\ CreateInsertOrder(r)
    \/ \E r \in DOMAIN req : CreateInsertItem(r)
    \/ Tick

SpecTick == InitTick /\ [][NextTick]_vars

\* Two orders on different products: order o holds lines for product o only,
\* and one updateOrderStatus request per order is about to read its order.
\* before keeps the tables and the two targets as they are at the start.
IndepLines(p) ==
    { << [orderId |-> p, productId |-> p, quantity |-> q,
          price |-> CatalogPrice(p), priceCents |-> PriceCents(CatalogPrice(p))] >> :
        q \in 1..MaxQty }
    \cup { << [orderId |-> p, productId |-> p, quantity |-> 1,
               price |-> CatalogPrice(p), priceCents |-> PriceCents(CatalogPrice(p))],
              [orderId |-> p, productId |-> p, quantity |-> MaxQty,
               price |-> CatalogPrice(p), priceCents |-> PriceCents(CatalogPrice(p))] >> }

IndepStatuses == {"pending", "paid"}
IndepTargets == {"paid", "cancelled"}

InitIndep ==
    /\ \E stock \in [1..2 -> 0..MaxRacedStock] : products = Catalog(stock)
    /\ \E l1 \in IndepLines(1), l2 \in IndepLines(2) : orderItems = <<l1, l2>>
    /\ intended = orderItems
    /\ \E st \in [1..2 -> IndepStatuses] :
           orders = [o \in 1..2 |->
                        [status |-> st[o],
                         totalCents |-> SumCents(orderItems[o]),
                         customerPhone |-> Trim(GoodPhone),
                         orderNumber |-> o, createdAt |-> o, updatedAt |-> o]]
    /\ \E target \in [1..2 -> IndepTargets] :
           /\ req = [r \in 1..2 |-> UpdateEnter(Num(r), target[r])]
           /\ before = [products |-> products, orders |-> orders,
                        orderItems |-> orderItems, targets |-> target]
    /\ out = NoResp
    /\ now = 2

NextIndep ==
    \/ \E r \in DOMAIN req : UpdateSelectOrder(r)
    \/ \E r \in DOMAIN req : UpdateSelectItems(r)
    \/ \E r \in DOMAIN req : UpdateSelectStock(r)
    \/ \E r \in DOMAIN req : UpdateStock(r)
    \/ \E r \in DOMAIN req : UpdateOrder(r)

SpecIndep == InitIndep /\ [][NextIndep]_vars

\* One pending order with lines for product 1, whose stock covers them, and
\* NReq updateOrderStatus(paid) requests for it, all about to read the order.  before keeps the tables
\* as they are at the start.
InitSameOrder ==
    /\ \E l \in IndepLines(1) :
           /\ orderItems = <<l>>
           /\ \E stock \in Demand(l, 1)..(2 * (MaxQty + 1)) :
                  products = Catalog([p \in 1..NRaced |-> stock])
    /\ intended = orderItems
    /\ orders = [o \in 1..1 |->
                    [status |-> "pending",
                     totalCents |-> SumCents(orderItems[o]),
                     customerPhone |-> Trim(GoodPhone),
                     orderNumber |-> o, createdAt |-> o, updatedAt |-> o]]
    /\ req = [r \in 1..NReq |-> UpdateEnter(Num(1), "paid")]
    /\ before = Snapshot
    /\ out = NoResp
    /\ now = 1

SpecSameOrder == InitSameOrder /\ [][NextIndep]_vars

\* Two pending orders with lines for product 1, whose stock covers both, and
\* one updateOrderStatus(paid) request per order, each about to read its order.
InitSameProduct ==
    /\ \E l1 \in IndepLines(1), l2 \in IndepLines(1) :
           /\ orderItems = <<l1, [k \in DOMAIN l2 |-> [l2[k] EXCEPT !.orderId = 2]]>>
           /\ \E stock \in (Demand(l1, 1) + Demand(l2, 1))..(2 * (MaxQty + 1)) :
                  products = Catalog([p \in 1..NRaced |-> stock])
    /\ intended = orderItems
    /\ orders = [o \in 1..2 |->
                    [status |-> "pending",
                     totalCents |-> SumCents(orderItems[o]),
                     customerPhone |-> Trim(GoodPhone),
                     orderNumber |-> o, createdAt |-> o, updatedAt |-> o]]
    /\ req = [r \in 1..2 |-> UpdateEnter(Num(r), "paid")]
    /\ before = Snapshot
    /\ out = NoResp
    /\ now = 2

SpecSameProduct == InitSameProduct /\ [][NextIndep]_vars

\* The catalog price of a product is changed (by the product routes).
ChangePrice ==
    /\ \E p \in DOMAIN products, q \in Products :
           /\ products[p].price # CatalogPrice(q)
           /\ products' = [products EXCEPT ![p].price = CatalogPrice(q)]
    /\ UNCHANGED <<orders, orderItems, req, out, intended, before, now>>

\* Orders are created, updated and read, one request at a time, while catalog
\* prices change and the clock runs.
InitPrice ==
    /\ products = Catalog([p \in 1..NRaced |-> 1])
    /\ orders = <<>>
    /\ orderItems = <<>>
    /\ intended = <<>>
    /\ req = [r \in 1..1 |-> Idle]
    /\ out = NoResp
    /\ before = NoSnapshot
    /\ now = 0

NextPrice ==
    \/ \E r \in DOMAIN req : CreateStart(r)
    \/ \E r \in DOMAIN req : CreateSelectProduct(r)
    \/ \E r \in DOMAIN req : Len(orders) < MaxOrders /\ CreateInsertOrder(r)
    \/ \E r \in DOMAIN req : CreateInsertItem(r)
    \/ \E r \in DOMAIN req : UpdateStart(r)
    \/ \E r \in DOMAIN req : UpdateSelectOrder(r)
    \/ \E r \in DOMAIN req : UpdateSelectItems(r)
    \/ \E r \in DOMAIN req : UpdateSelectStock(r)
    \/ \E r \in DOMAIN req : UpdateStock(r)
    \/ \E r \in DOMAIN req : UpdateOrder(r)
    \/ \E r \in DOMAIN req : GetStart(r)
    \/ \E r \in DOMAIN req : GetSelectOrder(r)
    \/ \E r \in DOMAIN req : GetSelectItems(r)
    \/ ChangePrice
    \/ Tick

SpecPrice == InitPrice /\ [][NextPrice]_vars

\* A table of n orders created one after the other, of all six statuses, and
\* getOrders requests one at a time.  The table sizes are the multiples of 5.
PagedOrders(n) ==
    [o \in 1..n |->
        [status |-> validStatuses[((o - 1) % Len(validStatuses)) + 1],
         totalCents |-> PriceCents(CatalogPrice(1)),
         customerPhone |-> Trim(GoodPhone),
         orderNumber |-> o, createdAt |-> o, updatedAt |-> o]]

InitPages ==
    /\ products = Catalog([p \in 1..1 |-> MaxStock])
    /\ \E n \in { k \in 0..NPagedOrders : k % 5 = 0 } : orders = PagedOrders(n)
    /\ orderItems = [o \in DOMAIN orders |-> <<>>]
    /\ intended = orderItems
    /\ req = <<Idle>>
    /\ out = NoResp
    /\ before = NoSnapshot
    /\ now = NPagedOrders

NextPages ==
    \/ \E r \in DOMAIN req : GetOrdersStart(r)
    \/ \E r \in DOMAIN req : GetOrdersCount(r)
    \/ \E r \in DOMAIN req : GetOrdersSelect(r)

SpecPages == InitPages /\ [][NextPages]_vars

\* Time passes: a tick, or up to a whole day.
Elapse ==
    /\ \E d \in 1..DayLength :
           /\ now + d < SalesDays * DayLength
           /\ now' = now + d
    /\ UNCHANGED <<products, orders, orderItems, req, out, intended, before>>

\* No order, or NSalesOrders pending orders as createOrder leaves them, each of
\* one unit of product 1, created at times of the past days; then updateOrderStatus and
\* getSalesSummary requests, one at a time, while time passes.
SalesLines(o) ==
    << [orderId |-> o, productId |-> 1, quantity |-> 1,
        price |-> CatalogPrice(1), priceCents |-> PriceCents(CatalogPrice(1))] >>

InitSales ==
    /\ products = Catalog([p \in 1..NRaced |-> 1])
    /\ \E n \in {0, NSalesOrders} :
           /\ orderItems = [o \in 1..n |-> SalesLines(o)]
           /\ \E at \in [1..n -> 0..(SalesDays * DayLength - 1)] :
                  /\ \A o \in 1..(n - 1) : at[o] <= at[o + 1]
                  /\ orders = [o \in 1..n |->
                                  [status |-> "pending",
                                   totalCents |-> SumCents(orderItems[o]),
                                   customerPhone |-> Trim(GoodPhone),
                                   orderNumber |-> at[o], createdAt |-> at[o],
                                   updatedAt |-> at[o]]]
                  /\ now = IF n = 0 THEN 0 ELSE at[n]
    /\ intended = orderItems
    /\ req = [r \in 1..1 |-> Idle]
    /\ out = NoResp
    /\ before = NoSnapshot

NextSales ==
    \/ \E r \in DOMAIN req : UpdateStart(r)
    \/ \E r \in DOMAIN req : UpdateSelectOrder(r)
    \/ \E r \in DOMAIN req : UpdateSelectItems(r)
    \/ \E r \in DOMAIN req : UpdateSelectStock(r)
    \/ \E r \in DOMAIN req : UpdateStock(r)
    \/ \E r \in DOMAIN req : UpdateOrder(r)
    \/ \E r \in DOMAIN req : SalesStart(r)
    \/ \E r \in DOMAIN req : getSalesSummary(r)
    \/ Elapse

SpecSales == InitSales /\ [][NextSales]_vars

\* A table of NSearchOrders orders, pending or paid, each with a word of the
\* letters a and A in its order number, its customer name or its customer
\* email, and getOrders requests with a search term, one at a time.
SearchWords == { <<c>> : c \in {"a", "A"} } \cup { <<c, d>> : c, d \in {"a", "A"} }

SearchRows ==
    { [status |-> st, totalCents |-> PriceCents(CatalogPrice(1)),
       customerPhone |-> Trim(GoodPhone),
       orderNumber |-> IF f = "orderNumber" THEN w ELSE <<"z">>,
       customerName |-> IF f = "customerName" THEN w ELSE <<"z">>,
       customerEmail |-> IF f = "customerEmail" THEN w ELSE <<"z">>,
       createdAt |-> 0, updatedAt |-> 0] :
        st \in {"pending", "paid"},
        f \in {"orderNumber", "customerName", "customerEmail"},
        w \in SearchWords }

InitSearch ==
    /\ products = Catalog([p \in 1..1 |-> MaxStock])
    /\ \E table \in [1..NSearchOrders -> SearchRows] :
           orders = [o \in 1..NSearchOrders |->
                        [table[o] EXCEPT !.createdAt = o, !.updatedAt = o]]
    /\ orderItems = [o \in DOMAIN orders |-> <<>>]
    /\ intended = orderItems
    /\ req = <<Idle>>
    /\ out = NoResp
    /\ before = NoSnapshot
    /\ now = NSearchOrders

NextSearch ==
    \/ \E r \in DOMAIN req : SearchStart(r)
    \/ \E r \in DOMAIN req : GetOrdersCount(r)
    \/ \E r \in DOMAIN req : GetOrdersSelect(r)

SpecSearch == InitSearch /\ [][NextSearch]_vars

(***************************************************************************)
(* Properties.                                                             *)
(***************************************************************************)
Quiet == \A r \in DOMAIN req : ~InFlight(r)

PaidOrders == { o \in DOMAIN orders : orders[o].status = "paid" }

FailedPaid ==
    /\ out.kind = "updateOrderStatus"
    /\ out.code = 400
    /\ out.message = "Insufficient stock"

\* C1: when the NConc concurrent paid transitions for the last unit have all
\* returned, exactly one order is paid (one request succeeded, the others
\* failed with insufficient stock) and the stock is 0.
C1_ExactlyOneTakesLastUnit ==
    Quiet => Cardinality(PaidOrders) = 1 /\ products[1].stock = 0

\* C2: in every reachable state, whatever the interleaving of createOrder and
\* updateOrderStatus requests, the stock of every product is >= 0.
C2_StockNeverNegative ==
    \A p \in DOMAIN products : products[p].stock >= 0

\* Two paid transitions have both passed the stock check for the same product
\* though its stock does not cover both.
C2_Witness ==
    \E r1, r2 \in DOMAIN req :
        /\ r1 # r2
        /\ req[r1].pc = "updateStock" /\ req[r2].pc = "updateStock"
        /\ LET i1 == req[r1].items[req[r1].i]
               i2 == req[r2].items[req[r2].i]
           IN  /\ i1.productId = i2.productId
               /\ products[i1.productId].stock - i1.quantity - i2.quantity < 0

\* C3: a paid transition that fails for insufficient stock leaves the stock of
\* every product as it was before the call.
C3_FailedPaidChangesNoStock ==
    FailedPaid => products = before.products

\* C4: a successful paid transition of a pending order lowers the stock of each
\* product by the quantity the order's lines hold for it and leaves the order
\* paid; a paid request on an order that is already paid changes neither the
\* stock nor the order.
C4_PaidDecrementsOnce ==
    (out.kind = "updateOrderStatus" /\ out.code = 200 /\ out.status = "paid") =>
        /\ orders[out.order].status = "paid"
        /\ before.orders[out.order].status = "pending" =>
               \A p \in DOMAIN products :
                   products[p].stock = before.products[p].stock
                                       - Demand(orderItems[out.order], p)
        /\ before.orders[out.order].status = "paid" =>
               products = before.products /\ orders = before.orders

\* A pending order of two lines has been paid and the stock has gone down.
C4_Witness ==
    /\ out.kind = "updateOrderStatus" /\ out.code = 200 /\ out.status = "paid"
    /\ before.orders[out.order].status = "pending"
    /\ Len(orderItems[out.order]) = 2
    /\ \E p \in DOMAIN products : products[p].stock = before.products[p].stock - 2

\* C5: a paid transition that fails for insufficient stock leaves every order's
\* status as it was (a pending order stays pending), reports the stock of the
\* offending product and the quantity of the offending line, and that stock is
\* still there; for an order of one line no stock has changed.
C5_FailedPaidKeepsStatus ==
    FailedPaid =>
        /\ orders = before.orders
        /\ out.available = products[out.product].stock
        /\ out.requested = orderItems[out.order][out.line].quantity
        /\ out.product = orderItems[out.order][out.line].productId
        /\ out.requested > out.available
        /\ Len(orderItems[out.order]) = 1 => products = before.products

\* A pending order of one line asking for 2 units has failed to become paid with
\* 1 unit in stock: it is still pending, the stock is still 1, and the error
\* reports available 1 and requested 2.
C5_Witness ==
    /\ FailedPaid
    /\ before.orders[out.order].status = "pending"
    /\ orders[out.order].status = "pending"
    /\ Len(orderItems[out.order]) = 1
    /\ out.requested = 2 /\ out.available = 1
    /\ products[out.product].stock = 1

StockStep(r) ==
    /\ req[r].kind = "updateOrderStatus"
    /\ req[r].pc = "updateStock"
    /\ req'[r] # req[r]

\* C6: createOrder, accepted or rejected, answers with the stock of every
\* product as it was before the call, and a step changes the stock only when it
\* is the stock update of an updateOrderStatus request whose target is paid.
C6_OnlyPaidTransitionChangesStock ==
    /\ [](out.kind = "createOrder" => products = before.products)
    /\ [][products' # products =>
              \E r \in DOMAIN req : StockStep(r) /\ req[r].status = "paid"]_vars

\* createOrder has persisted an order of two lines and answered 201, and a
\* product the order holds is still in stock, as much as before the call.
C6_Witness ==
    /\ out.kind = "createOrder" /\ out.code = 201
    /\ Len(orderItems[out.order]) = 2
    /\ \E p \in DOMAIN products :
           /\ Demand(orderItems[out.order], p) > 0
           /\ products[p].stock = before.products[p].stock
           /\ products[p].stock > 0

C8_TotalIsSumOfItems ==
    Quiet => \A o \in DOMAIN orders : orders[o].totalCents = SumCents(orderItems[o])

\* C9: a createOrder request that is rejected (400 or 404) leaves the orders
\* and the order items as they were before the call.
C9_RejectedCreatePersistsNothing ==
    (out.kind = "createOrder" /\ out.code \in {400, 404}) =>
        orders = before.orders /\ orderItems = before.orderItems

\* createOrder has rejected a request at its second line, after the first line
\* had passed validation.
C9_Witness ==
    /\ out.kind = "createOrder" /\ out.code \in {400, 404}
    /\ out.line = 2
    /\ orders = before.orders /\ orderItems = before.orderItems

\* C10: in every reachable state, every persisted order header has all the
\* line items its request validated.
C10_HeaderNeverWithoutItems ==
    \A o \in DOMAIN orders : Len(orderItems[o]) = Len(intended[o])

\* An edge of the transition graph
\* pending -> {paid, cancelled, failed}, paid -> {completed, refunded}.
Edge(from, to) ==
    \/ from = "pending" /\ to \in {"paid", "cancelled", "failed"}
    \/ from = "paid" /\ to \in {"completed", "refunded"}

\* C11: every step that changes the stored status of an order changes it along
\* an edge of the transition graph; so no order returns to pending.
C11_StatusFollowsGraph ==
    [][\A o \in DOMAIN orders :
           orders'[o].status # orders[o].status =>
               Edge(orders[o].status, orders'[o].status)]_vars

\* The six recognized status labels.
SixLabels == {"pending", "paid", "completed", "cancelled", "refunded", "failed"}

\* C12: an updateOrderStatus request whose target is none of the six labels,
\* unless it is rejected for its order id first, is answered 400 "Invalid
\* status" and leaves every order and every product's stock as before the
\* call; and the stored status of every order is one of the six labels.
C12_InvalidStatusChangesNothing ==
    /\ (/\ out.kind = "updateOrderStatus"
        /\ out.status \notin SixLabels
        /\ out.message # "Invalid order id") =>
           /\ out.code = 400
           /\ out.message = "Invalid status"
           /\ orders = before.orders
           /\ products = before.products
    /\ \A o \in DOMAIN orders : orders[o].status \in SixLabels

\* A request with target "shipped" for an existing order that is paid has been
\* answered "Invalid status".
C12_Witness ==
    /\ out.kind = "updateOrderStatus"
    /\ out.status = "shipped"
    /\ out.message = "Invalid status"
    /\ out.order \in DOMAIN orders
    /\ orders[out.order].status = "paid"

\* C13: an updateOrderStatus request with a recognized target for an order id
\* that does not exist is answered 404 (or 500 if the storage fails) and leaves
\* the orders, the order items and the products as before the call.
C13_UnknownOrderChangesNothing ==
    (/\ out.kind = "updateOrderStatus"
     /\ out.status \in SixLabels
     /\ out.message # "Invalid order id"
     /\ out.order \notin DOMAIN before.orders) =>
        /\ \/ out.code = 404 /\ out.message = "Order not found"
           \/ out.code = 500
        /\ orders = before.orders
        /\ orderItems = before.orderItems
        /\ products = before.products

\* A request with target paid for the id after the last order's has been
\* answered 404, while an order with line items exists.
C13_Witness ==
    /\ out.kind = "updateOrderStatus"
    /\ out.status = "paid"
    /\ out.code = 404
    /\ Len(orders) > 0
    /\ out.order = Len(orders) + 1
    /\ Len(orderItems[1]) > 0

\* Row k of items is for the product and the quantity of input line k of lines.
SameLines(items, lines) ==
    /\ Len(items) = Len(lines)
    /\ \A k \in 1..Len(items) :
           /\ items[k].productId = lines[k].productId.val
           /\ items[k].quantity = lines[k].quantity.val

\* C14: createOrder goes on to persist an order only with one validated line
\* per input line; when it answers 201 the new order is pending, has one line
\* item per validated line, and every line is for an existing product whose
\* stock before the call was at least the line's quantity; it answers 404
\* only for a product that does not exist and 400 "Insufficient stock" only for
\* a quantity above the product's stock.
C14_CreateValidatesEveryLine ==
    /\ \A r \in DOMAIN req :
           (req[r].kind = "createOrder" /\ req[r].pc \in {"insertOrder", "insertItem"})
               => SameLines(req[r].finalItems, req[r].items)
    /\ (out.kind = "createOrder" /\ out.code = 201) =>
           /\ out.order \notin DOMAIN before.orders
           /\ orders[out.order].status = "pending"
           /\ Len(orderItems[out.order]) = Len(intended[out.order])
           /\ \A k \in 1..Len(orderItems[out.order]) :
                  LET item == orderItems[out.order][k]
                  IN  /\ item.productId = intended[out.order][k].productId
                      /\ item.quantity = intended[out.order][k].quantity
                      /\ item.productId \in DOMAIN products
                      /\ before.products[item.productId].stock >= item.quantity
    /\ (out.kind = "createOrder" /\ out.code = 404) =>
           out.product \notin DOMAIN products
    /\ (out.kind = "createOrder" /\ out.message = "Insufficient stock") =>
           /\ out.code = 400
           /\ out.available = before.products[out.product].stock
           /\ out.available < out.requested

\* createOrder has answered 201 for an order of two lines, one of them asking
\* for all the stock of its product.
C14_Witness ==
    /\ out.kind = "createOrder" /\ out.code = 201
    /\ Len(orderItems[out.order]) = 2
    /\ \E k \in 1..2 :
           LET item == orderItems[out.order][k]
           IN  item.quantity = products[item.productId].stock

\* C15: an updateOrderStatus request for an existing order with a recognized
\* target other than paid leaves the stock of every product as before the
\* call and, unless the storage fails, is answered 200 with the order's status
\* set to the target.
C15_OtherTargetsOnlyWriteStatus ==
    (/\ out.kind = "updateOrderStatus"
     /\ out.status \in SixLabels \ {"paid"}
     /\ out.message # "Invalid order id"
     /\ out.order \in DOMAIN before.orders) =>
        /\ products = before.products
        /\ out.code \in {200, 500}
        /\ out.code = 200 => orders[out.order].status = out.status

\* A paid order has been set to cancelled.
C15_Witness ==
    /\ out.kind = "updateOrderStatus" /\ out.code = 200
    /\ out.status = "cancelled"
    /\ out.was = "paid"
    /\ orders[out.order].status = "cancelled"
    /\ Len(orderItems[out.order]) > 0

\* C16: no two persisted orders have the same order number.
C16_OrderNumbersUnique ==
    \A o1, o2 \in DOMAIN orders :
        o1 # o2 => orders[o1].orderNumber # orders[o2].orderNumber

\* A createOrder request is still inserting the line items of order o.
Creating(o) ==
    \E r \in DOMAIN req :
        req[r].kind = "createOrder" /\ req[r].pc = "insertItem" /\ req[r].newOrder = o

\* C17: no step changes the totalCents, the customer phone, the order number
\* or the creation time of a persisted order, nor, once createOrder is done
\* with it, its line items (while createOrder inserts them, rows are only
\* added); the stored total is the sum over the lines as they were priced
\* when the order was validated; and getOrder returns that total and, for each
\* line, the unit price stored with it then, whatever the catalog price is now.
C17_OnlyStatusChangesAfterCreation ==
    /\ [][\A o \in DOMAIN orders :
              /\ orders'[o].totalCents = orders[o].totalCents
              /\ orders'[o].customerPhone = orders[o].customerPhone
              /\ orders'[o].orderNumber = orders[o].orderNumber
              /\ orders'[o].createdAt = orders[o].createdAt
              /\ ~Creating(o) => orderItems'[o] = orderItems[o]
              /\ Len(orderItems'[o]) >= Len(orderItems[o])
              /\ SubSeq(orderItems'[o], 1, Len(orderItems[o])) = orderItems[o]]_vars
    /\ [](\A o \in DOMAIN orders : orders[o].totalCents = SumCents(intended[o]))
    /\ []((out.kind = "getOrder" /\ out.code = 200) =>
              /\ out.data.total = Amount(SumCents(intended[out.order]))
              /\ Len(out.data.items) = Len(orderItems[out.order])
              /\ \A k \in 1..Len(out.data.items) :
                     /\ out.data.items[k].price = intended[out.order][k].price
                     /\ out.data.items[k].priceCents = intended[out.order][k].priceCents
                     /\ out.data.items[k].quantity = intended[out.order][k].quantity
                     /\ out.data.items[k].productId = intended[out.order][k].productId)

\* getOrder has answered for an order whose status was updated at a later time
\* than it was created and whose product's catalog price has changed since.
C17_Witness ==
    /\ out.kind = "getOrder" /\ out.code = 200
    /\ Len(out.data.items) > 0
    /\ out.data.items[1].productPrice # out.data.items[1].price
    /\ out.data.order.status = "paid"
    /\ out.data.order.updatedAt > out.data.order.createdAt

\* What the decrement loop makes of the products prods, run alone over items.
RECURSIVE Reserved(_, _)
Reserved(items, prods) ==
    IF items = <<>> THEN [products |-> prods, failed |-> FALSE]
    ELSE LET item == Head(items)
             left == prods[item.productId].stock - item.quantity
         IN  IF left < 0
             THEN [products |-> prods, failed |-> TRUE]
             ELSE Reserved(Tail(items),
                           [prods EXCEPT ![item.productId].stock = left])

\* What the request for order o makes of the tables of before, run alone: the
\* answer's code, the order's status and the products.
Alone(o) ==
    LET was == before.orders[o].status
        target == before.targets[o]
        res == Reserved(before.orderItems[o], before.products)
    IN  IF target = "paid" /\ was # "paid"
        THEN [code |-> IF res.failed THEN 400 ELSE 200,
              status |-> IF res.failed THEN was ELSE "paid",
              products |-> res.products]
        ELSE [code |-> 200, status |-> target, products |-> before.products]

\* C18: with two updateOrderStatus requests on two orders whose lines are for
\* different products, under every interleaving each request is answered as
\* it is when it runs alone, and when both have returned each order's status
\* and each product's stock are what the order's request makes of them alone.
C18_DisjointUpdatesIndependent ==
    /\ out.kind = "updateOrderStatus" => out.code = Alone(out.order).code
    /\ Quiet =>
           \A o \in DOMAIN orders :
               /\ orders[o].status = Alone(o).status
               /\ products[o].stock = Alone(o).products[o].stock

\* Both requests have taken stock for their pending orders and neither has
\* written its order's status yet.
C18_Witness ==
    /\ \A r \in DOMAIN req : req[r].kind = "updateOrderStatus" /\ req[r].pc = "updateOrder"
    /\ \A o \in DOMAIN orders :
           /\ before.orders[o].status = "pending"
           /\ before.targets[o] = "paid"
           /\ products[o].stock < before.products[o].stock

\* The orders a getOrders request with the status filter statusFilter is
\* about, oldest first.
Matching(statusFilter) ==
    SelectSeq(orders, LAMBDA row : statusFilter = "" \/ row.status = statusFilter)

\* The row at place k (from 1) of the matching orders in the sort order asked.
Sorted(statusFilter, sortOrder, k) ==
    LET rows == Matching(statusFilter)
    IN  IF sortOrder = "asc" THEN rows[k] ELSE rows[Len(rows) + 1 - k]

\* C19: getOrders answers with a page number of at least 1 (the one asked
\* when it is at least 1) and a page size in 1..100 (the one asked when it is
\* in that range, 20 when none is given); its rows are the at most perPage
\* rows that follow the first (page - 1) * perPage rows of the filtered and
\* sorted orders; totalPages is the least number of pages of that size, and
\* at least 1, that hold total rows.  With 45 orders, page 2 of size 20 has
\* 20 rows and totalPages is 3.
C19_PagesOfOrders ==
    out.kind = "getOrders" =>
        LET meta == out.data.meta
            rows == out.data.rows
            asked == out.data.asked
            skipped == (meta.page - 1) * meta.perPage
            matching == Len(Matching(meta.status))
        IN  /\ meta.page >= 1
            /\ IsInteger(asked.page) /\ asked.page.val >= 1 => meta.page = asked.page.val
            /\ meta.perPage \in 1..100
            /\ IsInteger(asked.perPage) /\ asked.perPage.val \in 1..100
                   => meta.perPage = asked.perPage.val
            /\ ~IsInteger(asked.perPage) => meta.perPage = 20
            /\ Len(rows) <= meta.perPage
            /\ Len(rows) = IF matching - skipped >= meta.perPage THEN meta.perPage
                           ELSE IF matching > skipped THEN matching - skipped
                           ELSE 0
            /\ \A k \in 1..Len(rows) :
                   rows[k] = Sorted(meta.status, meta.sortOrder, skipped + k)
            /\ meta.total = matching
            /\ meta.totalPages >= 1
            /\ meta.totalPages * meta.perPage >= meta.total
            /\ meta.totalPages > 1 => (meta.totalPages - 1) * meta.perPage < meta.total
            /\ (Len(orders) = 45 /\ meta.status = ""
                /\ asked.page = Num(2) /\ asked.perPage = Num(20))
                   => Len(rows) = 20 /\ meta.totalPages = 3

\* Page 2 of size 20 of 45 orders has been returned.
C19_Witness ==
    /\ out.kind = "getOrders"
    /\ Len(orders) = 45
    /\ out.data.meta.status = ""
    /\ out.data.asked = [page |-> Num(2), perPage |-> Num(20)]
    /\ Len(out.data.rows) = 20
    /\ out.data.meta.totalPages = 3

\* The orders created within the window a summary reports.
Reported == { o \in DOMAIN orders :
                 orders[o].createdAt >= out.data.from /\ orders[o].createdAt <= out.data.to }

RECURSIVE CentsOf(_)
CentsOf(S) ==
    IF S = {} THEN 0
    ELSE LET o == CHOOSE x \in S : TRUE
         IN  orders[o].totalCents + CentsOf(S \ {o})

\* C20: the revenue of a summary is the hundredth of the sum of totalCents
\* over the orders of its window that are paid or completed now, and its
\* orders count is the number of all orders of the window, whatever their
\* status.
C20_RevenueOfPaidAndCompleted ==
    out.kind = "getSalesSummary" =>
        LET counted == { o \in Reported : orders[o].status \in {"paid", "completed"} }
        IN  /\ out.data.revenue.units * 100 + out.data.revenue.hundredths = CentsOf(counted)
            /\ out.data.revenue.hundredths \in 0..99
            /\ out.data.orders = Cardinality(Reported)

\* A summary of a window that holds a paid or completed order and an order
\* of another status.
C20_Witness ==
    /\ out.kind = "getSalesSummary"
    /\ out.data.revenue.units > 0
    /\ out.data.orders > out.data.paidCount + out.data.completedCount

\* C21: a summary of a window in which no order was created is a success
\* with revenue 0, orders 0 and an averageOrderValue that is the number 0.
C21_EmptyWindowGivesZeros ==
    (out.kind = "getSalesSummary" /\ Reported = {}) =>
        /\ out.code = 200
        /\ out.data.revenue = [units |-> 0, hundredths |-> 0]
        /\ out.data.orders = 0
        /\ out.data.averageOrderValue.num = 0
        /\ out.data.averageOrderValue.den > 0

\* A summary of a window that began after the stored orders were created,
\* one of them paid or completed.
C21_Witness ==
    /\ out.kind = "getSalesSummary"
    /\ out.data.from <= out.data.to
    /\ Reported = {}
    /\ \E o \in DOMAIN orders : orders[o].status \in {"paid", "completed"}

\* C22: the rangeDays of a summary is a whole number from 1 to 365.
C22_RangeDaysWithinBounds ==
    out.kind = "getSalesSummary" => out.data.rangeDays \in 1..365

\* The total quantity of product p over the lines of the orders of S.
RECURSIVE DemandOf(_, _)
DemandOf(S, p) ==
    IF S = {} THEN 0
    ELSE LET o == CHOOSE x \in S : TRUE
         IN  Demand(orderItems[o], p) + DemandOf(S \ {o}, p)

\* The units of product p taken since the start, when every product had
\* MaxStock units.
Taken(p) == MaxStock - products[p].stock

\* C23: whatever updateOrderStatus requests have run, one after the other,
\* the units taken of a product are at most those the lines of the orders
\* hold for it: no order's lines are taken twice.
C23_DecrementedAtMostOnce ==
    \A p \in DOMAIN products : Taken(p) <= DemandOf(DOMAIN orders, p)

\* C26: when no request is in flight, the units taken of each product are
\* those of the lines of some set of orders that holds every order now paid:
\* the orders whose transition to paid succeeded.
C26_StockConserved ==
    Quiet =>
        \E S \in SUBSET DOMAIN orders :
            /\ PaidOrders \subseteq S
            /\ \A p \in DOMAIN products : Taken(p) = DemandOf(S, p)

\* C24: when the two paid requests for the same pending order have returned,
\* the stock of the product is lower by the quantity of the order's lines,
\* once.
C24_SameOrderPaidOnce ==
    Quiet =>
        \A p \in DOMAIN products :
            products[p].stock = before.products[p].stock - Demand(orderItems[1], p)

\* C25: when the two paid requests for two pending orders on the same
\* product, whose stock covers both, have returned, both orders are paid and
\* the stock is lower by the quantities of both.
C25_NoDecrementLost ==
    Quiet =>
        /\ \A o \in DOMAIN orders : orders[o].status = "paid"
        /\ \A p \in DOMAIN products :
               products[p].stock = before.products[p].stock
                                   - DemandOf(DOMAIN orders, p)

\* C27: an order that createOrder has accepted asks of every product, over
\* all its lines together, at most the units the product has in stock.
C27_CreateChecksSummedQuantities ==
    (out.kind = "createOrder" /\ out.code = 201) =>
        \A p \in DOMAIN products :
            Demand(orderItems[out.order], p) <= products[p].stock

\* C28: when no request is in flight, for every order that is paid the units
\* taken of each product, of the MaxRacedStock it started with, are at least
\* those of the order's persisted lines.
C28_PaidOrderTookEveryLine ==
    Quiet =>
        \A o \in PaidOrders :
            \A p \in DOMAIN products :
                MaxRacedStock - products[p].stock >= Demand(orderItems[o], p)

\* C29: while createOrder requests of the variant that takes stock at creation
\* run, one after the other or interleaved, no product's stock is below 0.
C29_EagerStockNeverNegative ==
    (\A r \in DOMAIN req : req[r].kind \in {"none", "createOrder"}) =>
        \A p \in DOMAIN products : products[p].stock >= 0

\* C30: in every state every order item belongs to a stored order and is for
\* a stored product: the items kept are those of the stored orders, and each
\* carries the id of its order and the id of a product of the catalog.
C30_ItemsReferenceOrderAndProduct ==
    /\ DOMAIN orderItems = DOMAIN orders
    /\ \A o \in DOMAIN orderItems :
           \A k \in DOMAIN orderItems[o] :
               /\ orderItems[o][k].orderId = o
               /\ orderItems[o][k].productId \in DOMAIN products

\* An order with a line is stored, a product has been deleted, and the
\* product of the line is still there.
C30_Witness ==
    /\ Len(products) < NProducts
    /\ \E o \in DOMAIN orders :
           /\ Len(orderItems[o]) > 0
           /\ orderItems[o][1].productId \in DOMAIN products

\* A letter without its case.
Folded(c) == IF c = "A" THEN "a" ELSE IF c = "B" THEN "b" ELSE c

\* term occurs in text when the case of the letters is ignored.
Occurs(term, text) ==
    \E i \in 0..(Len(text) - Len(term)) :
        \A k \in 1..Len(term) : Folded(text[i + k]) = Folded(term[k])

\* C31: a getOrders response to a request with a search term holds exactly
\* the orders whose status is the status filter, when one is given, and in
\* whose order number, customer name or customer email the term occurs,
\* whatever the case of the letters.
C31_SearchIgnoresCase ==
    (out.kind = "getOrders" /\ out.data.meta.q # <<>>) =>
        { out.data.rows[k].createdAt : k \in DOMAIN out.data.rows }
            = { orders[o].createdAt :
                    o \in { x \in DOMAIN orders :
                              /\ out.data.meta.status \in {"", orders[x].status}
                              /\ \/ Occurs(out.data.meta.q, orders[x].orderNumber)
                                 \/ Occurs(out.data.meta.q, orders[x].customerName)
                                 \/ Occurs(out.data.meta.q, orders[x].customerEmail) } }

====
